---- MODULE Spec2Model ----
(***************************************************************************)
(* Dependency-resolution core of the multi-agent MVP:                      *)
(*   src/core/ready_tasks.py, src/core/conditional_branching.py,           *)
(*   src/core/topological_sort.py, and the claim loops that drive them.    *)
(*                                                                         *)
(* A task queue is a Python dict {task_id: {state, dependencies, result,   *)
(* condition}}.  It is modelled as a function from task ids to records;    *)
(* the dict's iteration order is the order of IdOrder restricted to the    *)
(* keys.  Dependency lists are sequences (Python lists): they may repeat   *)
(* an id and may name ids that are no key of the dict.                     *)
(***************************************************************************)
EXTENDS Integers, Sequences, FiniteSets, TLC

VARIABLES
    task_queue,     \* the shared dict task_id -> task record
    updates,        \* SpecQueue: number of update_task_state calls made so far
    error,          \* outcome of the last call: "none" or the exception raised
    newly_ready,    \* get_ready_tasks_incremental(before, after) of the last update
    pc,             \* claim loop: position of every worker
    ready,          \* claim loop: the ready list each worker last read
    task_id,        \* claim loop: the task each worker picked
    claimed_by,     \* claim loop: the workers that marked each task in_progress
    iter,           \* claim loop: iterations each worker has started
    task_graph,     \* sequencer input: task -> list of dependencies
    result,         \* sequencer: outcome of topological_sort(task_graph)
    batches,        \* partitioner: outcome of get_parallel_batches(task_graph)
    phase,          \* sequencer: the functions that have returned
    call,           \* SpecQueue: arguments of the last update_task_state call
    validation,     \* SpecValidate: outcome of validate_conditional_graph
    successors,     \* SpecBranch: last get_conditional_successors call and its outcome
    simulation,     \* SpecBranch: last simulate_execution call and its outcome
    kahn,           \* SpecKahn: the loops of the sequencer and the partitioner
    workflow,       \* SpecWorkflow: the run of execute_workflow
    agency          \* SpecAgency: the Task objects and the executors

vars == <<task_queue, updates, error, newly_ready, pc, ready, task_id,
          claimed_by, iter, task_graph, result, batches, phase, call,
          validation, successors, simulation, kahn, workflow, agency>>

queue_vars == <<task_queue, updates, error, newly_ready, call>>
branch_vars == <<successors, simulation>>
extra_vars == <<kahn, workflow, agency>>
loop_vars == <<pc, ready, task_id, claimed_by, iter>>
topo_vars == <<task_graph, result, batches, phase>>

-----------------------------------------------------------------------------
(* Bounds of the model. *)

\* Longest dependency list handed to the sequencer and the partitioner.
MaxDeps == 2

\* Number of update_task_state calls explored from a freshly built queue.
MaxUpdates == 2

\* Number of workers running the claim loop concurrently.
NumWorkers == 2

\* The number of claim_task and execute_task calls in a run of the executors.
MaxCalls == 4

-----------------------------------------------------------------------------
(* Values. *)

\* Iteration order of the dicts (insertion order of the keys).
IdOrder == <<"A", "B", "C", "D", "X">>

\* class TaskState
PENDING == "pending"
READY == "ready"
IN_PROGRESS == "in_progress"
COMPLETED == "completed"
FAILED == "failed"
TaskState == {PENDING, READY, IN_PROGRESS, COMPLETED, FAILED}

\* class ConditionType
SUCCESS == "success"
FAILURE == "failure"
ALWAYS == "always"
ConditionType == {SUCCESS, FAILURE, ALWAYS}

\* A result is None or a dict that may or may not carry the key "success".
None == [is_none |-> TRUE, has_success |-> FALSE, success |-> FALSE]
EmptyResult == [is_none |-> FALSE, has_success |-> FALSE, success |-> FALSE]
Result(s) == [is_none |-> FALSE, has_success |-> TRUE, success |-> s]
Results == {None, EmptyResult, Result(TRUE), Result(FALSE)}

\* dep_result.get("success", False)
GetSuccess(r) == IF r.has_success THEN r.success ELSE FALSE

\* The elements of a list.
Range(s) == {s[i] : i \in 1..Len(s)}

\* All lists of length at most n over the ids S.
Lists(S, n) == UNION {[1..k -> S] : k \in 0..n}

\* for task_id, task_info in task_queue.items(): the keys in dict order.
items(q) == SelectSeq(IdOrder, LAMBDA t : t \in DOMAIN q)

\* The ids of S as a list in dict order.
ListOf(S) == SelectSeq(IdOrder, LAMBDA t : t \in S)

\* A task dict without the key "condition".
NoCondition == "absent"

\* A task as the callers build it.
Task(state, dependencies, res, condition) ==
    [state |-> state, dependencies |-> dependencies, result |-> res,
     condition |-> condition]

-----------------------------------------------------------------------------
(* src/core/ready_tasks.py *)

\* Mutant: the success flag of a completed dependency is not looked at.
Mutant_check_ignores_success(tid, q, dependencies) ==
    \A i \in 1..Len(dependencies) :
        LET dep_id == dependencies[i] IN
        /\ dep_id \in DOMAIN q
        /\ q[dep_id].state = COMPLETED

\* Mutant: the loop returns after the first dependency.
Mutant_check_first_dependency_only(tid, q, dependencies) ==
    dependencies # <<>> =>
        /\ dependencies[1] \in DOMAIN q
        /\ q[dependencies[1]].state = COMPLETED
        /\ ~q[dependencies[1]].result.is_none
        /\ GetSuccess(q[dependencies[1]].result)

\* Mutant: a dependency that is no key of the queue is skipped.
Mutant_check_skips_missing(tid, q, dependencies) ==
    \A i \in 1..Len(dependencies) :
        LET dep_id == dependencies[i] IN
        dep_id \in DOMAIN q =>
            /\ q[dep_id].state = COMPLETED
            /\ ~q[dep_id].result.is_none
            /\ GetSuccess(q[dep_id].result)

_check_dependencies_satisfied(tid, q, dependencies) ==
    \A i \in 1..Len(dependencies) :
        LET dep_id == dependencies[i] IN
        /\ dep_id \in DOMAIN q
        /\ q[dep_id].state = COMPLETED
        /\ ~q[dep_id].result.is_none
        /\ GetSuccess(q[dep_id].result)

get_ready_tasks(q) ==
    SelectSeq(items(q),
              LAMBDA t :
                  /\ q[t].state \notin {IN_PROGRESS, COMPLETED, FAILED}
                  /\ _check_dependencies_satisfied(t, q, q[t].dependencies))

\* Mutant: the new state is not validated.
Mutant_raises_unknown_id_only(q, tid, new_state) == tid \notin DOMAIN q

\* The two ValueError exits of update_task_state.
update_raises(q, tid, new_state) ==
    \/ tid \notin DOMAIN q
    \/ new_state \notin TaskState

\* Mutant: the task's dict is replaced by a new one that holds the state and
\* the result only.
Mutant_update_replaces_task(q, tid, new_state, res) ==
    [q EXCEPT ![tid] = Task(new_state, <<>>,
                            IF res.is_none THEN @.result ELSE res, NoCondition)]

\* Mutant: the state is stored and the result is dropped.
Mutant_update_state_only(q, tid, new_state, res) ==
    [q EXCEPT ![tid] = [@ EXCEPT !.state = new_state]]

update_task_state(q, tid, new_state, res) ==
    [q EXCEPT ![tid] = [@ EXCEPT !.state = new_state,
                                 !.result = IF res.is_none THEN @ ELSE res]]

\* Mutant: every pending dependent of the completed task is reported, without
\* looking at its other dependencies.
Mutant_incremental_unchecked(prev_task_queue, updated_task_queue) ==
    LET changed(t) ==
            /\ t \in DOMAIN prev_task_queue
            /\ prev_task_queue[t].state # updated_task_queue[t].state
            /\ updated_task_queue[t].state = COMPLETED
    IN SelectSeq(items(updated_task_queue),
                 LAMBDA d :
                     /\ updated_task_queue[d].state = PENDING
                     /\ \E t \in Range(updated_task_queue[d].dependencies) :
                            t # d /\ t \in DOMAIN updated_task_queue /\ changed(t))

\* Mutant: a dependent is looked at only when the completed task is the first
\* entry of its dependency list.
Mutant_incremental_first_entry(prev_task_queue, updated_task_queue) ==
    LET changed(t) ==
            /\ t \in DOMAIN prev_task_queue
            /\ prev_task_queue[t].state # updated_task_queue[t].state
            /\ updated_task_queue[t].state = COMPLETED
    IN SelectSeq(items(updated_task_queue),
                 LAMBDA d :
                     /\ updated_task_queue[d].state = PENDING
                     /\ updated_task_queue[d].dependencies # <<>>
                     /\ updated_task_queue[d].dependencies[1] # d
                     /\ updated_task_queue[d].dependencies[1]
                            \in DOMAIN updated_task_queue
                     /\ changed(updated_task_queue[d].dependencies[1])
                     /\ _check_dependencies_satisfied(
                            d, updated_task_queue,
                            updated_task_queue[d].dependencies))

get_ready_tasks_incremental(prev_task_queue, updated_task_queue) ==
    LET changed(t) ==
            LET prev_state == IF t \in DOMAIN prev_task_queue
                              THEN prev_task_queue[t].state ELSE PENDING
                new_state == updated_task_queue[t].state
            IN ~(prev_state = new_state \/ new_state # COMPLETED)
        dependents(t) ==
            SelectSeq(items(updated_task_queue),
                      LAMBDA d :
                          /\ d # t
                          /\ t \in Range(updated_task_queue[d].dependencies)
                          /\ updated_task_queue[d].state = PENDING
                          /\ _check_dependencies_satisfied(
                                 d, updated_task_queue,
                                 updated_task_queue[d].dependencies))
        RECURSIVE scan(_)
        scan(ts) == IF ts = <<>> THEN <<>>
                    ELSE (IF changed(Head(ts)) THEN dependents(Head(ts)) ELSE <<>>)
                         \o scan(Tail(ts))
    IN scan(items(updated_task_queue))

validate_ready_state(q, ready_tasks) ==
    /\ Range(get_ready_tasks(q)) = Range(ready_tasks)
    /\ \A i \in 1..Len(ready_tasks) :
           LET tid == ready_tasks[i] IN
           /\ tid \in DOMAIN q
           /\ q[tid].state = PENDING
           /\ _check_dependencies_satisfied(tid, q, q[tid].dependencies)

\* get_blocked_tasks skips the tasks in these states.
blocked_skips(q, t) == q[t].state \in {IN_PROGRESS, COMPLETED, FAILED}

\* dep_result.get("success", False) is evaluated for a completed dependency;
\* on the result None it raises AttributeError.
blocked_raises(q) ==
    \E t \in DOMAIN q :
        /\ ~blocked_skips(q, t)
        /\ \E dep_id \in Range(q[t].dependencies) :
               /\ dep_id \in DOMAIN q
               /\ q[dep_id].state = COMPLETED
               /\ q[dep_id].result.is_none

\* incomplete_deps of a task: the dependencies that are missing, not
\* completed, or completed without success, in list order.
incomplete_deps(q, t) ==
    SelectSeq(q[t].dependencies,
              LAMBDA dep_id :
                  \/ dep_id \notin DOMAIN q
                  \/ q[dep_id].state # COMPLETED
                  \/ ~GetSuccess(q[dep_id].result))

\* The outcome of get_blocked_tasks: the exception it raised, or the dict
\* blocked it returned.
get_blocked_tasks(q) ==
    IF blocked_raises(q)
    THEN [error |-> "AttributeError", blocked |-> <<>>]
    ELSE [error |-> "none",
          blocked |->
              [t \in {u \in DOMAIN q :
                          ~blocked_skips(q, u) /\ incomplete_deps(q, u) # <<>>}
                  |-> incomplete_deps(q, t)]]

-----------------------------------------------------------------------------
(* src/core/conditional_branching.py *)

\* task.get("condition", ConditionType.ALWAYS.value)
GetCondition(task) ==
    IF task.condition = NoCondition THEN ALWAYS ELSE task.condition

\* Mutant: the success condition looks at the parent's state only.
Mutant_evaluate_success_by_state(condition, parent_state, parent_result) ==
    CASE condition = ALWAYS -> parent_state \in {COMPLETED, FAILED}
      [] condition = SUCCESS -> parent_state = COMPLETED
      [] condition = FAILURE ->
            IF parent_state = FAILED THEN TRUE
            ELSE IF parent_state = COMPLETED /\ ~parent_result.is_none
                 THEN ~GetSuccess(parent_result)
                 ELSE FALSE

\* Mutant: the failure condition is satisfied by any finished parent.
Mutant_evaluate_failure_any_terminal(condition, parent_state, parent_result) ==
    CASE condition = ALWAYS -> parent_state \in {COMPLETED, FAILED}
      [] condition = SUCCESS ->
            IF parent_state # COMPLETED THEN FALSE
            ELSE ~parent_result.is_none /\ GetSuccess(parent_result)
      [] condition = FAILURE -> parent_state \in {COMPLETED, FAILED}

evaluate_condition(condition, parent_state, parent_result) ==
    CASE condition = ALWAYS -> parent_state \in {COMPLETED, FAILED}
      [] condition = SUCCESS ->
            IF parent_state # COMPLETED THEN FALSE
            ELSE ~parent_result.is_none /\ GetSuccess(parent_result)
      [] condition = FAILURE ->
            IF parent_state = FAILED THEN TRUE
            ELSE IF parent_state = COMPLETED /\ ~parent_result.is_none
                 THEN ~GetSuccess(parent_result)
                 ELSE FALSE

\* Mutant: the condition is evaluated against the first dependency only.
Mutant_conditional_first_only(tid, q, dependencies) ==
    LET condition == GetCondition(q[tid]) IN
    /\ \A i \in 1..Len(dependencies) :
           /\ dependencies[i] \in DOMAIN q
           /\ q[dependencies[i]].state \in {COMPLETED, FAILED}
    /\ dependencies # <<>> =>
           evaluate_condition(condition, q[dependencies[1]].state,
                              q[dependencies[1]].result)

check_conditional_dependencies_satisfied(tid, q, dependencies) ==
    LET condition == GetCondition(q[tid]) IN
    \A i \in 1..Len(dependencies) :
        LET dep_id == dependencies[i] IN
        /\ dep_id \in DOMAIN q
        /\ q[dep_id].state \in {COMPLETED, FAILED}
        /\ evaluate_condition(condition, q[dep_id].state, q[dep_id].result)

get_ready_tasks_with_conditions(q) ==
    SelectSeq(items(q),
              LAMBDA t :
                  /\ q[t].state \notin {IN_PROGRESS, COMPLETED, FAILED}
                  /\ check_conditional_dependencies_satisfied(
                         t, q, q[t].dependencies))

\* Mutant: the state of a dependent is not looked at.
Mutant_successors_any_state(tid, q, task_result) ==
    LET task_state == IF GetSuccess(task_result) THEN COMPLETED ELSE FAILED
        triggered(d) ==
            /\ tid \in Range(q[d].dependencies)
            /\ evaluate_condition(GetCondition(q[d]), task_state, task_result)
    IN [success_path |->
            SelectSeq(items(q), LAMBDA d : triggered(d) /\ GetCondition(q[d]) = SUCCESS),
        failure_path |->
            SelectSeq(items(q), LAMBDA d : triggered(d) /\ GetCondition(q[d]) = FAILURE),
        always_path |->
            SelectSeq(items(q),
                      LAMBDA d : triggered(d)
                                 /\ GetCondition(q[d]) \notin {SUCCESS, FAILURE})]

\* The three lists are filled in one pass over the dict, so each is the
\* dependents it receives, in dict order.
get_conditional_successors(tid, q, task_result) ==
    LET task_state == IF GetSuccess(task_result) THEN COMPLETED ELSE FAILED
        triggered(d) ==
            /\ tid \in Range(q[d].dependencies)
            /\ q[d].state = PENDING
            /\ evaluate_condition(GetCondition(q[d]), task_state, task_result)
    IN [success_path |->
            SelectSeq(items(q), LAMBDA d : triggered(d) /\ GetCondition(q[d]) = SUCCESS),
        failure_path |->
            SelectSeq(items(q), LAMBDA d : triggered(d) /\ GetCondition(q[d]) = FAILURE),
        always_path |->
            SelectSeq(items(q),
                      LAMBDA d : triggered(d)
                                 /\ GetCondition(q[d]) \notin {SUCCESS, FAILURE})]

\* failure_task = None
NoFailureTask == "None"

\* One iteration of the loop of simulate_execution when no task fails.
simulate_success_step(q, sim, t) ==
    IF GetCondition(q[t]) \in {SUCCESS, ALWAYS}
    THEN [sim EXCEPT !.executed = Append(@, t)]
    ELSE [sim EXCEPT !.skipped = Append(@, t)]

\* One iteration of the loop of simulate_execution when failure_task fails;
\* sim holds the lists filled by the earlier iterations.
simulate_failure_step(q, failure_task, sim, t) ==
    LET condition == GetCondition(q[t])
        dependencies == Range(q[t].dependencies)
    IN IF failure_task \in dependencies
       THEN CASE condition = FAILURE -> [sim EXCEPT !.error_handlers = Append(@, t)]
              [] condition = SUCCESS -> [sim EXCEPT !.skipped = Append(@, t)]
              [] OTHER -> [sim EXCEPT !.executed = Append(@, t)]
       ELSE IF ~\E dep \in {failure_task} \cup Range(sim.skipped) : dep \in dependencies
            THEN IF condition \in {SUCCESS, ALWAYS}
                 THEN [sim EXCEPT !.executed = Append(@, t)]
                 ELSE sim
            ELSE sim

RECURSIVE simulate_loop(_, _, _, _)
simulate_loop(q, failure_task, sim, ts) ==
    IF ts = <<>> THEN sim
    ELSE simulate_loop(q, failure_task,
                       IF failure_task = NoFailureTask
                       THEN simulate_success_step(q, sim, Head(ts))
                       ELSE simulate_failure_step(q, failure_task, sim, Head(ts)),
                       Tail(ts))

simulate_execution(q, failure_task) ==
    simulate_loop(q, failure_task,
                  [executed |-> <<>>, skipped |-> <<>>, error_handlers |-> <<>>],
                  items(q))

\* The errors validate_conditional_graph appends for one task: the invalid
\* condition first, then one error per dependency that is no key, in list
\* order.  An error message is modelled by what it names.
task_errors(q, t) ==
    LET condition == GetCondition(q[t])
        missing == SelectSeq(q[t].dependencies, LAMBDA dep_id : dep_id \notin DOMAIN q)
    IN (IF condition \notin ConditionType
        THEN << <<t, "invalid condition", condition>> >> ELSE <<>>)
       \o [i \in 1..Len(missing) |-> <<t, "dependency not found", missing[i]>>]

\* Mutant: the dependencies of a task are not looked at.
Mutant_validate_conditions_only(q) ==
    LET RECURSIVE collect(_)
        collect(ts) ==
            IF ts = <<>> THEN <<>>
            ELSE (IF GetCondition(q[Head(ts)]) \notin ConditionType
                  THEN << <<Head(ts), "invalid condition", GetCondition(q[Head(ts)])>> >>
                  ELSE <<>>) \o collect(Tail(ts))
        errors == collect(items(q))
    IN [valid |-> Len(errors) = 0, errors |-> errors]

validate_conditional_graph(q) ==
    LET RECURSIVE collect(_)
        collect(ts) ==
            IF ts = <<>> THEN <<>> ELSE task_errors(q, Head(ts)) \o collect(Tail(ts))
        errors == collect(items(q))
    IN [valid |-> Len(errors) = 0, errors |-> errors]

-----------------------------------------------------------------------------
(* src/core/topological_sort.py *)

\* A list without its repeats, first occurrences kept in order.
RECURSIVE first_occurrences(_, _)
first_occurrences(s, seen) ==
    IF s = <<>> THEN <<>>
    ELSE IF Head(s) \in seen THEN first_occurrences(Tail(s), seen)
         ELSE <<Head(s)>> \o first_occurrences(Tail(s), seen \cup {Head(s)})

\* All dependency lists of the graph, concatenated in dict order.
RECURSIVE all_dependencies(_, _)
all_dependencies(g, nodes) ==
    IF nodes = <<>> THEN <<>>
    ELSE g[Head(nodes)] \o all_dependencies(g, Tail(nodes))

\* The keys of the dict in_degree in insertion order: the keys of the graph,
\* then the dependencies that are no key, as the loop meets them.
in_degree_keys(g) ==
    items(g) \o first_occurrences(all_dependencies(g, items(g)), DOMAIN g)

\* in_degree after Step 1: len(dependencies) for a key, 0 for any other node.
in_degree_of(g) ==
    [node \in Range(in_degree_keys(g)) |->
        IF node \in DOMAIN g THEN Len(g[node]) ELSE 0]

\* Mutant: the queue is seeded with every node, whatever its in-degree.
Mutant_zero_in_degree_all(g, in_degree) == in_degree_keys(g)

\* [node for node in in_degree if in_degree[node] == 0]
zero_in_degree(g, in_degree) ==
    SelectSeq(in_degree_keys(g), LAMBDA node : in_degree[node] = 0)

\* Mutant: a dependent is appended as soon as one of its dependencies is
\* processed, whatever its remaining in-degree.
Mutant_decrement_appends_early(g, in_degree, node) ==
    [in_degree |->
        [d \in DOMAIN in_degree |->
            IF d \in DOMAIN g /\ node \in Range(g[d])
            THEN in_degree[d] - 1 ELSE in_degree[d]],
     appended |->
        SelectSeq(items(g),
                  LAMBDA d : node \in Range(g[d]) /\ in_degree[d] = Len(g[d]))]

\* Mutant: every dependent of the processed node is appended, whatever its
\* in-degree.
Mutant_decrement_appends_always(g, in_degree, node) ==
    [in_degree |->
        [d \in DOMAIN in_degree |->
            IF d \in DOMAIN g /\ node \in Range(g[d])
            THEN in_degree[d] - 1 ELSE in_degree[d]],
     appended |-> SelectSeq(items(g), LAMBDA d : node \in Range(g[d]))]

\* The inner loop "for dependent in task_graph" for one processed node: the
\* in-degrees after it and the dependents it appended, in dict order.
decrement_dependents(g, in_degree, node) ==
    [in_degree |->
        [d \in DOMAIN in_degree |->
            IF d \in DOMAIN g /\ node \in Range(g[d])
            THEN in_degree[d] - 1 ELSE in_degree[d]],
     appended |->
        SelectSeq(items(g),
                  LAMBDA d : node \in Range(g[d]) /\ in_degree[d] - 1 = 0)]

\* Mutant: the deque is popped at its right end (queue.pop()).
RECURSIVE Mutant_process_queue_lifo(_, _, _, _)
Mutant_process_queue_lifo(g, in_degree, queue, res) ==
    IF queue = <<>> THEN res
    ELSE LET node == queue[Len(queue)]
             after == decrement_dependents(g, in_degree, node)
         IN Mutant_process_queue_lifo(g, after.in_degree,
                                      SubSeq(queue, 1, Len(queue) - 1)
                                          \o after.appended,
                                      Append(res, node))

\* Step 3 of topological_sort: the while loop over the deque.
RECURSIVE process_queue(_, _, _, _)
process_queue(g, in_degree, queue, res) ==
    IF queue = <<>> THEN res
    ELSE LET node == Head(queue)
             after == decrement_dependents(g, in_degree, node)
         IN process_queue(g, after.in_degree, Tail(queue) \o after.appended,
                          Append(res, node))

topological_sort(g) ==
    IF DOMAIN g = {} THEN <<>>
    ELSE process_queue(g, in_degree_of(g), zero_in_degree(g, in_degree_of(g)), <<>>)

\* The loop "for node in current_batch" of get_parallel_batches.
RECURSIVE process_batch(_, _, _, _)
process_batch(g, in_degree, nodes, next_batch) ==
    IF nodes = <<>> THEN [in_degree |-> in_degree, next_batch |-> next_batch]
    ELSE LET after == decrement_dependents(g, in_degree, Head(nodes))
         IN process_batch(g, after.in_degree, Tail(nodes),
                          next_batch \o after.appended)

\* The loop "while current_batch" of get_parallel_batches.
RECURSIVE process_batches(_, _, _, _)
process_batches(g, in_degree, current_batch, done) ==
    IF current_batch = <<>> THEN done
    ELSE LET after == process_batch(g, in_degree, current_batch, <<>>)
         IN process_batches(g, after.in_degree, after.next_batch,
                            Append(done, current_batch))

get_parallel_batches(g) ==
    IF DOMAIN g = {} THEN <<>>
    ELSE process_batches(g, in_degree_of(g), zero_in_degree(g, in_degree_of(g)), <<>>)

\* all_nodes of validate_ordering: the keys and every id a list names.
all_nodes(g) == DOMAIN g \cup UNION {Range(g[n]) : n \in DOMAIN g}

\* position = {task: idx for idx, task in enumerate(ordering)}: a task that
\* stands more than once in the ordering keeps its last index.
position(ordering, task) ==
    CHOOSE i \in 1..Len(ordering) :
        /\ ordering[i] = task
        /\ \A j \in (i + 1)..Len(ordering) : ordering[j] # task

validate_ordering(g, ordering) ==
    IF DOMAIN g = {} /\ ordering = <<>> THEN TRUE
    ELSE IF DOMAIN g = {} \/ ordering = <<>> THEN FALSE
    ELSE IF Range(ordering) # all_nodes(g) THEN FALSE
    ELSE \A task \in DOMAIN g :
             \A dependency \in Range(g[task]) :
                 ~(position(ordering, dependency) >= position(ordering, task))

-----------------------------------------------------------------------------
(* src/orchestration/workflow.py: the agent selection of execute_workflow *)

\* best_agent = None
NoAgent == "None"

\* The loop "for agent_name, (...) in self.agents.items()" with
\* "if affinity > best_affinity": the first agent with the highest score
\* above best_affinity, which starts at 0.0.
RECURSIVE find_best_agent(_, _, _, _)
find_best_agent(agents, affinity, best_agent, best_affinity) ==
    IF agents = <<>> THEN best_agent
    ELSE IF affinity[Head(agents)] > best_affinity
         THEN find_best_agent(Tail(agents), affinity, Head(agents),
                              affinity[Head(agents)])
         ELSE find_best_agent(Tail(agents), affinity, best_agent, best_affinity)

\* "if best_agent:" is false for None and for the empty name.
Truthy(best_agent) == best_agent # NoAgent /\ best_agent # ""

-----------------------------------------------------------------------------
(* src/agents/state.py and src/agents/agency.py: AgentExecutor *)

\* update_agent_history: a TaskExecution with status in_progress is appended.
update_agent_history(agent_state, tid) ==
    [agent_state EXCEPT
        !.task_history = Append(@, [task_id |-> tid, status |-> IN_PROGRESS])]

\* state.claim_task: agent_state.current_task = task_id
state_claim_task(agent_state, tid) ==
    [agent_state EXCEPT !.current_task = tid]

\* The index of the first entry of the history for the task, 0 if none.
first_entry(task_history, tid) ==
    IF \E i \in 1..Len(task_history) : task_history[i].task_id = tid
    THEN CHOOSE i \in 1..Len(task_history) :
             /\ task_history[i].task_id = tid
             /\ \A j \in 1..(i - 1) : task_history[j].task_id # tid
    ELSE 0

\* state.complete_task, called with current_task = task_id: the first entry
\* of the history for the task becomes completed.
state_complete_task(agent_state, tid) ==
    LET i == first_entry(agent_state.task_history, tid) IN
    [agent_state EXCEPT
        !.task_history = IF i = 0 THEN @ ELSE [@ EXCEPT ![i].status = COMPLETED],
        !.completed_tasks = @ + 1,
        !.current_task = NoAgent]

\* Mutant: the task is claimed whoever holds it.
Mutant_claim_task_unchecked(ag, e, tid) ==
    [tasks |-> [ag.tasks EXCEPT ![tid].claimed_by = e],
     executors |->
        [ag.executors EXCEPT
            ![e] = state_claim_task(
                       update_agent_history(
                           [@ EXCEPT !.total_tasks_claimed = @ + 1], tid), tid)],
     returned |-> TRUE]

\* AgentExecutor.claim_task of the executor e on the task: the tasks and the
\* executors after the call, and the value returned.
claim_task(ag, e, tid) ==
    IF ag.tasks[tid].claimed_by # NoAgent
    THEN [tasks |-> ag.tasks, executors |-> ag.executors, returned |-> FALSE]
    ELSE [tasks |-> [ag.tasks EXCEPT ![tid].claimed_by = e],
          executors |->
             [ag.executors EXCEPT
                 ![e] = state_claim_task(
                            update_agent_history(
                                [@ EXCEPT !.total_tasks_claimed = @ + 1], tid),
                            tid)],
          returned |-> TRUE]

\* AgentExecutor.complete_task
complete_task(ag, e, tid) ==
    [tasks |-> [ag.tasks EXCEPT ![tid].completed = TRUE],
     executors |->
        IF ag.executors[e].current_task = tid
        THEN [ag.executors EXCEPT ![e] = state_complete_task(@, tid)]
        ELSE ag.executors,
     returned |-> TRUE]

\* AgentExecutor.execute_task
execute_task(ag, e, tid) ==
    LET claimed == claim_task(ag, e, tid) IN
    IF claimed.returned
    THEN LET completed == complete_task(claimed, e, tid) IN
         [tasks |-> completed.tasks,
          executors |-> [completed.executors EXCEPT ![e].execution_count = @ + 1],
          returned |-> TRUE]
    ELSE [tasks |-> claimed.tasks, executors |-> claimed.executors,
          returned |-> FALSE]

-----------------------------------------------------------------------------
(* The idle values of the variables a specification does not use. *)

LoopIdle ==
    /\ pc = <<>>
    /\ ready = <<>>
    /\ task_id = <<>>
    /\ claimed_by = <<>>
    /\ iter = <<>>

TopoIdle ==
    /\ task_graph = <<>>
    /\ result = <<>>
    /\ batches = <<>>
    /\ phase = {}

QueueIdle ==
    /\ task_queue = <<>>
    /\ updates = 0
    /\ error = "none"
    /\ newly_ready = <<>>
    /\ call = <<>>

ValidateIdle == validation = <<>>

BranchIdle ==
    /\ successors = <<>>
    /\ simulation = <<>>

ExtraIdle ==
    /\ kahn = <<>>
    /\ workflow = <<>>
    /\ agency = <<>>

-----------------------------------------------------------------------------
(* SpecQueue: a freshly built queue driven by arbitrary update_task_state   *)
(* calls.  Tasks A and B have no dependencies; task C carries any           *)
(* dependency list of the family below and any condition.                   *)

\* Dependency lists of task C: none, one or two existing tasks in either
\* order, a repeated id, an id that is no key, and C itself.
QueueDeps ==
    {<<>>, <<"A">>, <<"A", "B">>, <<"B", "A">>, <<"A", "A">>, <<"X">>,
     <<"A", "X">>, <<"C">>}

InitQueue ==
    /\ \E deps \in QueueDeps, cond \in ConditionType \cup {NoCondition} :
           task_queue =
               [t \in {"A", "B", "C"} |->
                   IF t = "C" THEN Task(PENDING, deps, None, cond)
                   ELSE Task(PENDING, <<>>, None, NoCondition)]
    /\ updates = 0
    /\ error = "none"
    /\ newly_ready = <<>>
    /\ call = <<>>
    /\ LoopIdle
    /\ TopoIdle
    /\ ValidateIdle
    /\ BranchIdle
    /\ ExtraIdle

\* update_task_state(task_queue, task_id, new_state, result) returns.
UpdateTaskState ==
    /\ updates < MaxUpdates
    /\ \E tid \in DOMAIN task_queue \cup {"X"},
          new_state \in TaskState \cup {"bogus"},
          res \in Results :
           /\ ~update_raises(task_queue, tid, new_state)
           /\ task_queue' = update_task_state(task_queue, tid, new_state, res)
           /\ newly_ready' = get_ready_tasks_incremental(task_queue, task_queue')
           /\ call' = <<tid, new_state, res>>
    /\ updates' = updates + 1
    /\ error' = "none"
    /\ UNCHANGED <<loop_vars, topo_vars, validation, branch_vars,
                   extra_vars>>

\* update_task_state raises ValueError: unknown task id or invalid state.
UpdateTaskStateRaises ==
    /\ updates < MaxUpdates
    /\ \E tid \in DOMAIN task_queue \cup {"X"},
          new_state \in TaskState \cup {"bogus"},
          res \in Results :
           /\ update_raises(task_queue, tid, new_state)
           /\ call' = <<tid, new_state, res>>
    /\ updates' = updates + 1
    /\ error' = "ValueError"
    /\ UNCHANGED <<task_queue, newly_ready, loop_vars, topo_vars, validation, branch_vars,
                   extra_vars>>

NextQueue ==
    \/ UpdateTaskState
    \/ UpdateTaskStateRaises

SpecQueue == InitQueue /\ [][NextQueue]_vars

-----------------------------------------------------------------------------
(* Claims about the ready-set evaluators, checked under SpecQueue. *)

\* A task nobody has claimed or finished.
Unclaimed(q, t) == q[t].state \notin {IN_PROGRESS, COMPLETED, FAILED}

\* The dependency d of a task exists, is completed and succeeded.
CompletedWithSuccess(q, d) ==
    /\ d \in DOMAIN q
    /\ q[d].state = COMPLETED
    /\ q[d].result = Result(TRUE)

\* C1: get_ready_tasks returns, each once, exactly the tasks that are not
\* in_progress, completed or failed and whose every dependency exists in the
\* queue, is completed and has a result with success = true; a task without
\* dependencies in an unclaimed state is always returned.
C1_ReadyTasksExact ==
    LET returned == get_ready_tasks(task_queue) IN
    /\ Range(returned) =
           {t \in DOMAIN task_queue :
               /\ Unclaimed(task_queue, t)
               /\ \A d \in Range(task_queue[t].dependencies) :
                      CompletedWithSuccess(task_queue, d)}
    /\ Len(returned) = Cardinality(Range(returned))
    /\ \A t \in DOMAIN task_queue :
           (task_queue[t].dependencies = <<>> /\ task_queue[t].state \in {PENDING, READY})
               => t \in Range(returned)

\* C1 witness: task C, which has two dependencies, is returned once both
\* were recorded completed with success, while a finished task is left out.
C1_Witness ==
    /\ Len(task_queue["C"].dependencies) = 2
    /\ "C" \in Range(get_ready_tasks(task_queue))
    /\ "A" \notin Range(get_ready_tasks(task_queue))

\* The dependency d, in a terminal state, satisfies the condition cond.  A
\* result without the key "success" counts as success = false
\* (ready_tasks.py line 128: "could be missing in some cases, treat as failure").
Accepts(cond, d) ==
    CASE cond = ALWAYS -> d.state \in {COMPLETED, FAILED}
      [] cond = SUCCESS -> d.state = COMPLETED /\ d.result = Result(TRUE)
      [] cond = FAILURE ->
            \/ d.state = FAILED
            \/ d.state = COMPLETED /\ d.result \in {Result(FALSE), EmptyResult}

\* C8: get_ready_tasks_with_conditions returns exactly the unclaimed tasks
\* whose every dependency is completed or failed and individually satisfies
\* the task's condition (always: any terminal state; success: completed with
\* success = true; failure: failed, or completed with success = false).
C8_ConditionalReadyExact ==
    LET returned == get_ready_tasks_with_conditions(task_queue) IN
    /\ Range(returned) =
           {t \in DOMAIN task_queue :
               /\ Unclaimed(task_queue, t)
               /\ \A d \in Range(task_queue[t].dependencies) :
                      /\ d \in DOMAIN task_queue
                      /\ task_queue[d].state \in {COMPLETED, FAILED}
                      /\ Accepts(GetCondition(task_queue[t]), task_queue[d])}
    /\ Len(returned) = Cardinality(Range(returned))

\* C8 witness: C, with condition failure and the two dependencies A and B, is
\* returned when one of them failed and the other completed with
\* success = false.
C8_Witness ==
    /\ task_queue["C"].condition = FAILURE
    /\ Range(task_queue["C"].dependencies) = {"A", "B"}
    /\ task_queue["A"].state = FAILED
    /\ task_queue["B"].state = COMPLETED
    /\ "C" \in Range(get_ready_tasks_with_conditions(task_queue))

\* The step changes exactly one task, and changes its state to completed.
CompletionStep ==
    \E t \in DOMAIN task_queue :
        /\ task_queue[t].state # COMPLETED
        /\ task_queue'[t].state = COMPLETED
        /\ \A u \in DOMAIN task_queue \ {t} : task_queue'[u] = task_queue[u]

\* C10: when before and after differ by one task changing to completed, every
\* task get_ready_tasks_incremental(before, after) returns is in
\* get_ready_tasks(after) and not in get_ready_tasks(before).
C10_IncrementalSubset ==
    [][CompletionStep =>
          Range(newly_ready') \subseteq
              (Range(get_ready_tasks(task_queue')) \
                   Range(get_ready_tasks(task_queue)))]_vars

\* C10 witness: the incremental evaluator reported C after the completion of
\* the last of its two dependencies.
C10_Witness ==
    /\ newly_ready = <<"C">>
    /\ Range(task_queue["C"].dependencies) = {"A", "B"}
    /\ task_queue["A"].state = COMPLETED
    /\ task_queue["B"].state = COMPLETED

-----------------------------------------------------------------------------
(* Claims about update_task_state, checked under SpecQueue. *)

\* The step is a call of update_task_state.
IsCall == updates' = updates + 1

\* The step is a call that asks for task t to enter one of the states S.
Requested(t, S) == IsCall /\ call'[1] = t /\ call'[2] \in S

\* C11: a call that asks for a pending or ready task to become completed or
\* failed fails with InvalidTransition and leaves the queue as it was, and a
\* task enters a terminal state only from in_progress.
C11_TerminalOnlyFromInProgress ==
    [][\A t \in DOMAIN task_queue :
          /\ (task_queue[t].state \in {PENDING, READY}
                  /\ Requested(t, {COMPLETED, FAILED})) =>
                 (error' = "InvalidTransition" /\ task_queue' = task_queue)
          /\ (task_queue[t].state \notin {COMPLETED, FAILED}
                  /\ task_queue'[t].state \in {COMPLETED, FAILED}) =>
                 task_queue[t].state = IN_PROGRESS]_vars

\* C12: once a task is completed or failed, no step changes its state or its
\* result.
C12_TerminalAbsorbing ==
    [][\A t \in DOMAIN task_queue :
          task_queue[t].state \in {COMPLETED, FAILED} =>
              /\ task_queue'[t].state = task_queue[t].state
              /\ task_queue'[t].result = task_queue[t].result]_vars

\* C13: in every reachable queue a task has a result (its result is not None)
\* if and only if its state is completed or failed.
C13_ResultIffTerminal ==
    \A t \in DOMAIN task_queue :
        (~task_queue[t].result.is_none) <=>
            task_queue[t].state \in {COMPLETED, FAILED}

\* C14: a call whose task id is no key of the queue, or whose new state is
\* not a TaskState value, raises and leaves the queue unchanged.
C14_RejectedCallChangesNothing ==
    [][(IsCall /\ (call'[1] \notin DOMAIN task_queue \/ call'[2] \notin TaskState)) =>
          (error' = "ValueError" /\ task_queue' = task_queue)]_vars

\* C14 witness: a call for the unknown id X with a valid state raised, after
\* an earlier call had moved A to in_progress.
C14_Witness ==
    /\ error = "ValueError"
    /\ call[1] = "X"
    /\ call[2] = COMPLETED
    /\ task_queue["A"].state = IN_PROGRESS

\* C15: a call that returns changes nothing but the state and the result of
\* the task it names: every other task, the keys of the queue, and the
\* dependencies and condition of the named task stay as they were.
C15_UpdateFrame ==
    [][(IsCall /\ error' = "none") =>
          /\ DOMAIN task_queue' = DOMAIN task_queue
          /\ \A u \in DOMAIN task_queue :
                 /\ u # call'[1] => task_queue'[u] = task_queue[u]
                 /\ task_queue'[u].dependencies = task_queue[u].dependencies
                 /\ task_queue'[u].condition = task_queue[u].condition]_vars

\* C15 witness: C, which has two dependencies and the condition failure, was
\* moved to completed with a result by the last call.
C15_Witness ==
    /\ error = "none"
    /\ call = <<"C", COMPLETED, Result(TRUE)>>
    /\ task_queue["C"].dependencies = <<"A", "B">>
    /\ task_queue["C"].condition = FAILURE
    /\ task_queue["C"].state = COMPLETED
    /\ task_queue["C"].result = Result(TRUE)

-----------------------------------------------------------------------------
(* Claims about the diagnostics of ready_tasks.py, checked under SpecQueue. *)

\* The lists handed to validate_ready_state: every set of ids, X included,
\* as a list, and the list get_ready_tasks returns.
ClaimedReadyLists(q) ==
    {ListOf(T) : T \in SUBSET (DOMAIN q \cup {"X"})} \cup {get_ready_tasks(q)}

\* C17: validate_ready_state(queue, S) is True exactly when the set of S is
\* the set get_ready_tasks(queue) returns; it is True for
\* S = get_ready_tasks(queue).
C17_ValidateIffReadySet ==
    /\ \A S \in ClaimedReadyLists(task_queue) :
           validate_ready_state(task_queue, S) <=>
               (Range(S) = Range(get_ready_tasks(task_queue)))
    /\ validate_ready_state(task_queue, get_ready_tasks(task_queue))

\* The task names, among its dependencies, an id that is no key of the queue.
HasMissingDependency(q, t) ==
    \E d \in Range(q[t].dependencies) : d \notin DOMAIN q

\* C19: a task with a dependency that is no key of the queue is returned by
\* neither get_ready_tasks nor get_ready_tasks_with_conditions.
C19_MissingDependencyNeverReady ==
    \A t \in DOMAIN task_queue :
        HasMissingDependency(task_queue, t) =>
            /\ t \notin Range(get_ready_tasks(task_queue))
            /\ t \notin Range(get_ready_tasks_with_conditions(task_queue))

\* C19 witness: C depends on A and on the missing X; A is completed with
\* success = true and C, still pending, is not ready.
C19_Witness ==
    /\ task_queue["C"].dependencies = <<"A", "X">>
    /\ task_queue["C"].state = PENDING
    /\ CompletedWithSuccess(task_queue, "A")
    /\ "C" \notin Range(get_ready_tasks(task_queue))
    /\ "C" \notin Range(get_ready_tasks_with_conditions(task_queue))
    /\ updates > 0

\* C20: get_blocked_tasks returns, without raising, a map whose keys are the
\* unclaimed tasks that get_ready_tasks does not return, each with the list
\* of its dependencies that are absent or not completed with success = true.
C20_BlockedTasksExact ==
    LET out == get_blocked_tasks(task_queue) IN
    /\ out.error = "none"
    /\ \A t \in DOMAIN task_queue :
           Unclaimed(task_queue, t) =>
               /\ t \in DOMAIN out.blocked <=>
                      t \notin Range(get_ready_tasks(task_queue))
               /\ t \in DOMAIN out.blocked =>
                      out.blocked[t] =
                          SelectSeq(task_queue[t].dependencies,
                                    LAMBDA d : ~CompletedWithSuccess(task_queue, d))
    /\ \A t \in DOMAIN out.blocked : Unclaimed(task_queue, t)

-----------------------------------------------------------------------------
(* Claims that compare the evaluators, checked under SpecQueue. *)

\* Every task that has dependencies carries condition success.
DependentsCarrySuccess(q) ==
    \A t \in DOMAIN q : q[t].dependencies # <<>> => q[t].condition = SUCCESS

\* C31: on every queue in which each task that has dependencies carries
\* condition success, get_ready_tasks_with_conditions and get_ready_tasks
\* return the same set of tasks.
C31_ConditionalEqualsPlain ==
    DependentsCarrySuccess(task_queue) =>
        Range(get_ready_tasks_with_conditions(task_queue))
            = Range(get_ready_tasks(task_queue))

\* C31 witness: C waits for A and B with condition success; A has completed
\* with success = false and B with success = true, and neither evaluator
\* returns C.
C31_Witness ==
    /\ task_queue["C"].condition = SUCCESS
    /\ task_queue["C"].dependencies = <<"A", "B">>
    /\ task_queue["A"].state = COMPLETED
    /\ task_queue["A"].result = Result(FALSE)
    /\ task_queue["B"].state = COMPLETED
    /\ task_queue["B"].result = Result(TRUE)
    /\ task_queue["C"].state = PENDING
    /\ "C" \notin Range(get_ready_tasks_with_conditions(task_queue))

\* Every task that is not in_progress, completed or failed is pending.
UnclaimedArePending(q) == \A t \in DOMAIN q : q[t].state # READY

\* C32: when before and after differ by one task changing to completed and
\* every unclaimed task is pending, the tasks
\* get_ready_tasks_incremental(before, after) returns are exactly those of
\* get_ready_tasks(after) that are not in get_ready_tasks(before).
C32_IncrementalExact ==
    [][(CompletionStep /\ UnclaimedArePending(task_queue)
            /\ UnclaimedArePending(task_queue')) =>
          Range(newly_ready') =
              (Range(get_ready_tasks(task_queue')) \
                   Range(get_ready_tasks(task_queue)))]_vars

\* C32 witness: C lists B before A; B completed first, then A, and the
\* incremental evaluator reported C on the completion of A.
C32_Witness ==
    /\ task_queue["C"].dependencies = <<"B", "A">>
    /\ call = <<"A", COMPLETED, Result(TRUE)>>
    /\ task_queue["B"].state = COMPLETED
    /\ task_queue["C"].state = PENDING
    /\ newly_ready = <<"C">>
    /\ Range(get_ready_tasks(task_queue)) = {"C"}

-----------------------------------------------------------------------------
(* SpecTopo: the sequencer and the partitioner applied to every dependency  *)
(* map over the ids below with lists of at most MaxDeps entries.  The keys  *)
(* are any subset of the ids, so a list may name an id that is no key, may  *)
(* repeat an id, and may close a cycle.                                     *)

TopoIds == {"A", "B", "C"}

InitTopo ==
    /\ \E keys \in SUBSET TopoIds :
           task_graph \in [keys -> Lists(TopoIds, MaxDeps)]
    /\ result = <<>>
    /\ batches = <<>>
    /\ phase = {}
    /\ QueueIdle
    /\ ValidateIdle
    /\ BranchIdle
    /\ ExtraIdle
    /\ LoopIdle

\* result = topological_sort(task_graph): the function never raises.
TopologicalSort ==
    /\ "topological_sort" \notin phase
    /\ result' = topological_sort(task_graph)
    /\ phase' = phase \cup {"topological_sort"}
    /\ error' = "none"
    /\ UNCHANGED <<task_graph, batches, task_queue, updates, newly_ready, call,
                   loop_vars, validation, branch_vars,
                   extra_vars>>

\* batches = get_parallel_batches(task_graph): the function never raises.
GetParallelBatches ==
    /\ "get_parallel_batches" \notin phase
    /\ batches' = get_parallel_batches(task_graph)
    /\ phase' = phase \cup {"get_parallel_batches"}
    /\ error' = "none"
    /\ UNCHANGED <<task_graph, result, task_queue, updates, newly_ready, call,
                   loop_vars, validation, branch_vars,
                   extra_vars>>

NextTopo ==
    \/ TopologicalSort
    \/ GetParallelBatches

SpecTopo == InitTopo /\ [][NextTopo]_vars

-----------------------------------------------------------------------------
(* Claims about the sequencer and the partitioner, checked under SpecTopo. *)

\* Some non-empty set of tasks in which every task depends on a task of the set.
HasCycle(g) ==
    \E S \in SUBSET (DOMAIN g) :
        /\ S # {}
        /\ \A n \in S : Range(g[n]) \cap S # {}

\* The nodes of the graph: its keys and every id a dependency list names.
Nodes(g) == DOMAIN g \cup UNION {Range(g[n]) : n \in DOMAIN g}

\* The number of positions of the list s that hold x.
Occurrences(s, x) == Cardinality({i \in 1..Len(s) : s[i] = x})

\* The batches one after the other.
RECURSIVE Concat(_)
Concat(bs) == IF bs = <<>> THEN <<>> ELSE Head(bs) \o Concat(Tail(bs))

C5_CycleDetected ==
    ("topological_sort" \in phase /\ HasCycle(task_graph)) =>
        error = "CycleDetected"

\* C6: on an acyclic dependency map, the batches of get_parallel_batches,
\* concatenated, hold every node of the graph exactly once, and no batch
\* holds two nodes one of which is a direct dependency of the other.
C6_BatchCoverage ==
    ("get_parallel_batches" \in phase /\ ~HasCycle(task_graph)) =>
        /\ \A n \in Nodes(task_graph) : Occurrences(Concat(batches), n) = 1
        /\ Range(Concat(batches)) \subseteq Nodes(task_graph)
        /\ \A k \in 1..Len(batches) :
               \A t \in Range(batches[k]) \cap DOMAIN task_graph :
                   Range(task_graph[t]) \cap Range(batches[k]) = {}

\* The tasks form one chain: a first task without dependencies, and every
\* other task depending on exactly its predecessor.
IsChain(g) ==
    LET n == Cardinality(DOMAIN g) IN
    /\ n >= 1
    /\ \E p \in [1..n -> DOMAIN g] :
           /\ \A i, j \in 1..n : p[i] = p[j] => i = j
           /\ g[p[1]] = <<>>
           /\ \A i \in 2..n : g[p[i]] = <<p[i - 1]>>

\* At least one task, and no task has a dependency.
NoEdges(g) == DOMAIN g # {} /\ \A n \in DOMAIN g : g[n] = <<>>

\* C7: on an acyclic dependency map, every dependency of a task placed in
\* batch k lies in one of the batches before k; a pure chain yields one batch
\* of size 1 per task, and a graph without edges yields a single batch that
\* holds all tasks.
C7_BatchLevels ==
    ("get_parallel_batches" \in phase /\ ~HasCycle(task_graph)) =>
        /\ \A k \in 1..Len(batches) :
               \A t \in Range(batches[k]) \cap DOMAIN task_graph :
                   \A d \in Range(task_graph[t]) :
                       \E j \in 1..(k - 1) : d \in Range(batches[j])
        /\ IsChain(task_graph) =>
               /\ Len(batches) = Cardinality(DOMAIN task_graph)
               /\ \A k \in 1..Len(batches) : Len(batches[k]) = 1
        /\ NoEdges(task_graph) =>
               /\ Len(batches) = 1
               /\ Range(batches[1]) = DOMAIN task_graph
               /\ Len(batches[1]) = Cardinality(DOMAIN task_graph)

\* C7 witness: C depends on A and B, which depend on nothing: A and B share
\* the first batch and C is alone in the second.
C7_Witness ==
    /\ "get_parallel_batches" \in phase
    /\ DOMAIN task_graph = {"A", "B", "C"}
    /\ task_graph["C"] = <<"A", "B">>
    /\ batches = << <<"A", "B">>, <<"C">> >>

\* Every id a dependency list names is a key of the map.
DependenciesAreKeys(g) == \A n \in DOMAIN g : Range(g[n]) \subseteq DOMAIN g

\* The list holds every element of S exactly once and nothing else.
IsPermutation(s, S) ==
    /\ Range(s) = S
    /\ Len(s) = Cardinality(S)

\* C23: on an acyclic dependency map whose dependency ids are all keys,
\* topological_sort returns every task exactly once and validate_ordering
\* accepts the list.
C23_SortIsValidPermutation ==
    ("topological_sort" \in phase /\ ~HasCycle(task_graph)
        /\ DependenciesAreKeys(task_graph)) =>
        /\ IsPermutation(result, DOMAIN task_graph)
        /\ validate_ordering(task_graph, result)

\* The orderings handed to validate_ordering: every list over the ids that
\* is at most one entry longer than the graph has nodes.
Orderings(g) == Lists(TopoIds, Cardinality(Nodes(g)) + 1)

\* C28: validate_ordering(graph, ordering) is True exactly when the ordering
\* holds every node of the graph once and nothing else, and every dependency
\* of a task stands before the task.
C28_ValidateOrderingExact ==
    \A ordering \in Orderings(task_graph) :
        validate_ordering(task_graph, ordering) <=>
            /\ IsPermutation(ordering, Nodes(task_graph))
            /\ \A j \in 1..Len(ordering) :
                   ordering[j] \in DOMAIN task_graph =>
                       \A d \in Range(task_graph[ordering[j]]) :
                           \E i \in 1..(j - 1) : ordering[i] = d

\* C30: the list topological_sort returns is the batches of
\* get_parallel_batches one after the other, on every dependency map.
C30_SortEqualsBatches ==
    ({"topological_sort", "get_parallel_batches"} \subseteq phase) =>
        result = Concat(batches)

\* C30 witness: B and C depend on A and on nothing else; the sort A, B, C is
\* the batch of A followed by the batch of B and C.
C30_Witness ==
    /\ {"topological_sort", "get_parallel_batches"} \subseteq phase
    /\ DOMAIN task_graph = {"A", "B", "C"}
    /\ task_graph["B"] = <<"A">>
    /\ task_graph["C"] = <<"A">>
    /\ batches = << <<"A">>, <<"B", "C">> >>
    /\ result = <<"A", "B", "C">>

-----------------------------------------------------------------------------
(* The claim loop of the workers (tests/test_stress_engine.py):            *)
(*     for _ in range(n):                                                   *)
(*         ready = get_ready_tasks(task_queue)                              *)
(*         if ready:                                                        *)
(*             task_id = ready[0]                                           *)
(*             update_task_state(task_queue, task_id, "in_progress")        *)
(*             update_task_state(task_queue, task_id, "completed", {...})   *)
(* Which ready task a worker takes is the caller's policy, so the model     *)
(* lets it take any element of the list.  A loop runs as many iterations    *)
(* as the queue has tasks.                                                  *)

Iterations(q) == Cardinality(DOMAIN q)

\* The worker keeps the list it read and, when it is not empty, a task of it.
TakeFrom(w, r) ==
    /\ ready' = [ready EXCEPT ![w] = r]
    /\ iter' = [iter EXCEPT ![w] = @ + 1]
    /\ IF r = <<>>
       THEN /\ pc' = pc
            /\ task_id' = task_id
       ELSE /\ \E i \in 1..Len(r) : task_id' = [task_id EXCEPT ![w] = r[i]]
            /\ pc' = [pc EXCEPT ![w] = "claim"]
    /\ UNCHANGED <<task_queue, claimed_by, updates, error, newly_ready, call,
                   topo_vars, validation, branch_vars,
                   extra_vars>>

\* ready = get_ready_tasks(task_queue); task_id = a task of ready
ReadReady(w) ==
    /\ pc[w] = "read"
    /\ iter[w] < Iterations(task_queue)
    /\ TakeFrom(w, get_ready_tasks(task_queue))

\* ready = get_ready_tasks_with_conditions(task_queue); task_id = a task of ready
ReadReadyWithConditions(w) ==
    /\ pc[w] = "read"
    /\ iter[w] < Iterations(task_queue)
    /\ TakeFrom(w, get_ready_tasks_with_conditions(task_queue))

\* update_task_state(task_queue, task_id, "in_progress")
MarkInProgress(w) ==
    /\ pc[w] = "claim"
    /\ task_queue' = update_task_state(task_queue, task_id[w], IN_PROGRESS, None)
    /\ claimed_by' = [claimed_by EXCEPT ![task_id[w]] = @ \cup {w}]
    /\ pc' = [pc EXCEPT ![w] = "execute"]
    /\ UNCHANGED <<ready, task_id, iter, updates, error, newly_ready, call,
                   topo_vars, validation, branch_vars,
                   extra_vars>>

\* update_task_state(task_queue, task_id, "completed", {"success": True}),
\* first assignment: task_queue[task_id]["state"] = new_state.  Another
\* thread may run between the two assignments of the function.
StoreCompletedState(w) ==
    /\ pc[w] = "execute"
    /\ task_queue' = [task_queue EXCEPT ![task_id[w]].state = COMPLETED]
    /\ pc' = [pc EXCEPT ![w] = "store_result"]
    /\ UNCHANGED <<ready, task_id, claimed_by, iter, updates, error, newly_ready,
                   call, topo_vars, validation, branch_vars,
                   extra_vars>>

\* second assignment: task_queue[task_id]["result"] = result
StoreCompletedResult(w) ==
    /\ pc[w] = "store_result"
    /\ task_queue' = [task_queue EXCEPT ![task_id[w]].result = Result(TRUE)]
    /\ pc' = [pc EXCEPT ![w] = "read"]
    /\ UNCHANGED <<ready, task_id, claimed_by, iter, updates, error, newly_ready,
                   call, topo_vars, validation, branch_vars,
                   extra_vars>>

\* A single-threaded worker records the outcome of the task it took, with or
\* without having marked it in_progress first:
\* update_task_state(task_queue, task_id, "completed" | "failed", result).
RecordOutcome(w) ==
    /\ pc[w] \in {"claim", "execute"}
    /\ \E outcome \in {<<COMPLETED, Result(TRUE)>>, <<COMPLETED, Result(FALSE)>>,
                       <<COMPLETED, None>>, <<FAILED, Result(FALSE)>>,
                       <<FAILED, None>>} :
           task_queue' = update_task_state(task_queue, task_id[w], outcome[1],
                                           outcome[2])
    /\ claimed_by' = [claimed_by EXCEPT ![task_id[w]] = @ \cup {w}]
    /\ pc' = [pc EXCEPT ![w] = "read"]
    /\ UNCHANGED <<ready, task_id, iter, updates, error, newly_ready, call,
                   topo_vars, validation, branch_vars,
                   extra_vars>>

\* The loop variables of the workers W on the queue q before the first iteration.
LoopStart(W, q) ==
    /\ pc = [w \in W |-> "read"]
    /\ ready = [w \in W |-> <<>>]
    /\ task_id = [w \in W |-> "none"]
    /\ claimed_by = [t \in DOMAIN q |-> {}]
    /\ iter = [w \in W |-> 0]
    /\ updates = 0
    /\ error = "none"
    /\ newly_ready = <<>>
    /\ call = <<>>
    /\ TopoIdle
    /\ ValidateIdle
    /\ BranchIdle
    /\ ExtraIdle

-----------------------------------------------------------------------------
(* SpecConc: NumWorkers threads run the claim loop on one shared queue, as  *)
(* in test_10_tasks_3_agents_no_race_conditions (a chain of tasks), without *)
(* any lock around the calls of the core.                                   *)

\* task-i depends on task-(i-1)
ChainQueue ==
    [t \in {"A", "B", "C"} |->
        Task(PENDING,
             CASE t = "A" -> <<>> [] t = "B" -> <<"A">> [] t = "C" -> <<"B">>,
             None, NoCondition)]

InitConc ==
    /\ task_queue = ChainQueue
    /\ LoopStart(1..NumWorkers, task_queue)

NextConc ==
    \/ \E w \in DOMAIN pc : ReadReady(w)
    \/ \E w \in DOMAIN pc : MarkInProgress(w)
    \/ \E w \in DOMAIN pc : StoreCompletedState(w)
    \/ \E w \in DOMAIN pc : StoreCompletedResult(w)

SpecConc == InitConc /\ [][NextConc]_vars

\* C2: over all interleavings of the workers' claim loops, every task is
\* claimed (marked in_progress by a worker that picked it) at most once.
C2_ClaimedAtMostOnce ==
    \A t \in DOMAIN claimed_by : Cardinality(claimed_by[t]) <= 1

\* C33: in the claim loop, a task that get_ready_tasks returns is returned
\* again after every step that does not update the task itself: the progress
\* of other tasks never revokes readiness.
C33_ReadinessKept ==
    [][\A t \in DOMAIN task_queue :
           (t \in Range(get_ready_tasks(task_queue))
                /\ task_queue'[t] = task_queue[t]) =>
               t \in Range(get_ready_tasks(task_queue'))]_vars

-----------------------------------------------------------------------------
(* SpecLoop: one worker runs the claim loop with get_ready_tasks            *)
(* (test_sequential_claiming_with_dependencies) on every acyclic queue of   *)
(* four pending tasks whose dependencies precede them in the dict; the      *)
(* diamond A -> {B, C} -> D is one of them.                                 *)

LoopKeys == {"A", "B", "C", "D"}

\* The keys that precede t in the dict.
Earlier(t) ==
    {u \in LoopKeys :
        \E i, j \in 1..Len(IdOrder) : i < j /\ IdOrder[i] = u /\ IdOrder[j] = t}

InitLoop ==
    /\ \E g \in [LoopKeys -> SUBSET LoopKeys] :
           /\ \A t \in LoopKeys : g[t] \subseteq Earlier(t)
           /\ task_queue =
                  [t \in LoopKeys |-> Task(PENDING, ListOf(g[t]), None, NoCondition)]
    /\ LoopStart({1}, task_queue)

NextLoop ==
    \/ ReadReady(1)
    \/ MarkInProgress(1)
    \/ RecordOutcome(1)

SpecLoop == InitLoop /\ [][NextLoop]_vars

\* The queue is the diamond A -> {B, C} -> D.
IsDiamond(q) ==
    /\ DOMAIN q = {"A", "B", "C", "D"}
    /\ q["A"].dependencies = <<>>
    /\ q["B"].dependencies = <<"A">>
    /\ q["C"].dependencies = <<"A">>
    /\ q["D"].dependencies = <<"B", "C">>

\* C3: in every run of the claim loop a task leaves the pending state only
\* when each of its dependencies is completed with success = true; in the
\* diamond, D is in no ready set (computed on the queue or read by the
\* worker) unless both B and C are completed.
C3_DependenciesFirst ==
    /\ [][\A t \in DOMAIN task_queue :
              (task_queue[t].state = PENDING /\ task_queue'[t].state # PENDING) =>
                  \A d \in Range(task_queue[t].dependencies) :
                      CompletedWithSuccess(task_queue, d)]_vars
    /\ [](IsDiamond(task_queue) =>
             (("D" \in Range(get_ready_tasks(task_queue)) \/ "D" \in Range(ready[1])) =>
                  /\ task_queue["B"].state = COMPLETED
                  /\ task_queue["C"].state = COMPLETED))

\* C3 witness: in the diamond the worker took D from the ready set and
\* recorded it completed, after B and C.
C3_Witness ==
    /\ IsDiamond(task_queue)
    /\ task_id[1] = "D"
    /\ task_queue["D"].state = COMPLETED
    /\ claimed_by["D"] = {1}

-----------------------------------------------------------------------------
(* SpecCondLoop: one worker runs the claim loop with                        *)
(* get_ready_tasks_with_conditions (test_build_pipeline_workflow) on the    *)
(* queue of test_complete_scenario_ac5, all tasks pending: A without        *)
(* dependencies, B (success) and C (failure) depending on A, and a fourth   *)
(* task D with any dependencies among A, B, C and any condition.            *)

InitCondLoop ==
    /\ \E deps \in SUBSET {"A", "B", "C"}, cond \in ConditionType \cup {NoCondition} :
           task_queue =
               [t \in LoopKeys |->
                   CASE t = "A" -> Task(PENDING, <<>>, None, NoCondition)
                     [] t = "B" -> Task(PENDING, <<"A">>, None, SUCCESS)
                     [] t = "C" -> Task(PENDING, <<"A">>, None, FAILURE)
                     [] t = "D" -> Task(PENDING, ListOf(deps), None, cond)]
    /\ LoopStart({1}, task_queue)

NextCondLoop ==
    \/ ReadReadyWithConditions(1)
    \/ MarkInProgress(1)
    \/ RecordOutcome(1)

SpecCondLoop == InitCondLoop /\ [][NextCondLoop]_vars

\* Task A has finished and its result says success = false.
FinishedUnsuccessfully(q, t) ==
    /\ q[t].state \in {COMPLETED, FAILED}
    /\ q[t].result = Result(FALSE)

\* The tasks get_ready_tasks_with_conditions returns.
ConditionalReady(q) == Range(get_ready_tasks_with_conditions(q))

\* C9: once A has finished with success = false it stays so; at that moment C
\* is in the conditional ready set; B is in no conditional ready set from
\* then on; and B and C are never both ready in one state.
C9_FailureBranch ==
    /\ [][FinishedUnsuccessfully(task_queue, "A") =>
              FinishedUnsuccessfully(task_queue', "A")]_vars
    /\ [][(~FinishedUnsuccessfully(task_queue, "A")
              /\ FinishedUnsuccessfully(task_queue', "A")) =>
                  "C" \in ConditionalReady(task_queue')]_vars
    /\ [](FinishedUnsuccessfully(task_queue, "A") =>
              ("B" \notin ConditionalReady(task_queue) /\ "B" \notin Range(ready[1])))
    /\ [](~("B" \in ConditionalReady(task_queue) /\ "C" \in ConditionalReady(task_queue)))

\* C9 witness: A completed with success = false, the worker then read a ready
\* set that holds C and took C, and B is still pending.
C9_Witness ==
    /\ task_queue["A"].state = COMPLETED
    /\ FinishedUnsuccessfully(task_queue, "A")
    /\ "C" \in Range(ready[1])
    /\ task_id[1] = "C"
    /\ task_queue["C"].state = COMPLETED
    /\ task_queue["B"].state = PENDING

-----------------------------------------------------------------------------
(* SpecValidate: validate_conditional_graph applied to every queue of the  *)
(* tasks A and B whose dependency lists hold at most MaxDeps ids among A,   *)
(* B and X (X is no key) and whose condition is valid, absent or invalid.   *)

InvalidCondition == "invalid_condition"

InitValidate ==
    /\ task_queue \in
           [{"A", "B"} ->
               {Task(PENDING, deps, None, cond) :
                   deps \in Lists({"A", "B", "X"}, MaxDeps),
                   cond \in ConditionType \cup {NoCondition, InvalidCondition}}]
    /\ validation = <<>>
    /\ BranchIdle
    /\ ExtraIdle
    /\ updates = 0
    /\ error = "none"
    /\ newly_ready = <<>>
    /\ call = <<>>
    /\ LoopIdle
    /\ TopoIdle

\* validation = validate_conditional_graph(task_queue)
ValidateConditionalGraph ==
    /\ validation = <<>>
    /\ validation' = <<validate_conditional_graph(task_queue)>>
    /\ UNCHANGED <<queue_vars, loop_vars, topo_vars, branch_vars, extra_vars>>

NextValidate == ValidateConditionalGraph

SpecValidate == InitValidate /\ [][NextValidate]_vars

\* Every condition is a known kind (an absent one counts as always) and
\* every dependency id is a key of the queue.
WellFormed(q) ==
    \A t \in DOMAIN q :
        /\ q[t].condition \in ConditionType \cup {NoCondition}
        /\ \A d \in Range(q[t].dependencies) : d \in DOMAIN q

-----------------------------------------------------------------------------
(* SpecBranch: get_conditional_successors and simulate_execution applied   *)
(* once to a queue of the tasks A, B, C.  A is a pending root; B and C      *)
(* carry any dependency list of the family below, any valid or absent       *)
(* condition, and the state pending, in_progress or completed.              *)

\* Dependency lists of B and C: none, A, B (B itself, for B), C (a later key,
\* for B), A and B, and A repeated.
BranchDeps == {<<>>, <<"A">>, <<"B">>, <<"C">>, <<"A", "B">>, <<"A", "A">>}

InitBranch ==
    /\ \E b, c \in {Task(state, deps, None, cond) :
                      state \in {PENDING, IN_PROGRESS, COMPLETED},
                      deps \in BranchDeps,
                      cond \in ConditionType \cup {NoCondition}} :
           task_queue =
               [t \in {"A", "B", "C"} |->
                   CASE t = "A" -> Task(PENDING, <<>>, None, NoCondition)
                     [] t = "B" -> b
                     [] t = "C" -> c]
    /\ successors = <<>>
    /\ simulation = <<>>
    /\ updates = 0
    /\ error = "none"
    /\ newly_ready = <<>>
    /\ call = <<>>
    /\ LoopIdle
    /\ TopoIdle
    /\ ValidateIdle
    /\ ExtraIdle

\* successors = get_conditional_successors(task_id, task_queue, task_result)
GetConditionalSuccessors ==
    /\ successors = <<>>
    /\ simulation = <<>>
    /\ \E tid \in DOMAIN task_queue,
          task_result \in {Result(TRUE), Result(FALSE), EmptyResult} :
           successors' =
               <<[task_id |-> tid, task_result |-> task_result,
                  paths |-> get_conditional_successors(tid, task_queue, task_result)]>>
    /\ UNCHANGED <<queue_vars, loop_vars, topo_vars, validation, simulation,
                   extra_vars>>

\* simulation = simulate_execution(task_queue, failure_task)
SimulateExecution ==
    /\ successors = <<>>
    /\ simulation = <<>>
    /\ \E failure_task \in DOMAIN task_queue \cup {NoFailureTask} :
           simulation' =
               <<[failure_task |-> failure_task,
                  lists |-> simulate_execution(task_queue, failure_task)]>>
    /\ UNCHANGED <<queue_vars, loop_vars, topo_vars, validation, successors,
                   extra_vars>>

NextBranch ==
    \/ GetConditionalSuccessors
    \/ SimulateExecution

SpecBranch == InitBranch /\ [][NextBranch]_vars

\* The pending tasks that name t among their dependencies and have the
\* condition cond.
PendingDependents(q, t, cond) ==
    {d \in DOMAIN q :
        /\ t \in Range(q[d].dependencies)
        /\ q[d].state = PENDING
        /\ GetCondition(q[d]) = cond}

\* C21: the three lists get_conditional_successors returns are repeat-free;
\* success_path is the pending direct dependents with condition success when
\* the outcome has success = true and empty otherwise, failure_path those
\* with condition failure when success is not true and empty otherwise, and
\* always_path those with condition always for either outcome.  The lists
\* are therefore pairwise disjoint.
C21_SuccessorsPartition ==
    successors # <<>> =>
        LET t == successors[1].task_id
            ok == GetSuccess(successors[1].task_result)
            paths == successors[1].paths
        IN /\ Range(paths.success_path) =
                  (IF ok THEN PendingDependents(task_queue, t, SUCCESS) ELSE {})
           /\ Range(paths.failure_path) =
                  (IF ok THEN {} ELSE PendingDependents(task_queue, t, FAILURE))
           /\ Range(paths.always_path) = PendingDependents(task_queue, t, ALWAYS)
           /\ \A l \in {paths.success_path, paths.failure_path, paths.always_path} :
                  Len(l) = Cardinality(Range(l))
           /\ Range(paths.success_path) \cap Range(paths.failure_path) = {}
           /\ Range(paths.success_path) \cap Range(paths.always_path) = {}
           /\ Range(paths.failure_path) \cap Range(paths.always_path) = {}

\* C21 witness: A finished with success = false; B (failure, pending) is on
\* the failure path, while C, which has condition always and depends on A
\* too, is left out because it is already in_progress.
C21_Witness ==
    /\ successors # <<>>
    /\ successors[1].task_id = "A"
    /\ successors[1].task_result = Result(FALSE)
    /\ task_queue["B"] = Task(PENDING, <<"A">>, None, FAILURE)
    /\ task_queue["C"] = Task(IN_PROGRESS, <<"A", "B">>, None, ALWAYS)
    /\ successors[1].paths =
           [success_path |-> <<>>, failure_path |-> <<"B">>, always_path |-> <<>>]

\* C22: the lists executed, skipped and error_handlers of simulate_execution
\* partition the tasks of the queue: every task is in exactly one of them,
\* once.
C22_SimulationPartition ==
    simulation # <<>> =>
        LET lists == simulation[1].lists
            all == lists.executed \o lists.skipped \o lists.error_handlers
        IN /\ Range(all) = DOMAIN task_queue
           /\ Len(all) = Cardinality(DOMAIN task_queue)

\* C34: in simulate_execution with a failing task, a task that depends on
\* the failing task with condition success, or that depends on a task listed
\* in skipped, is not listed in executed.
C34_SkippedDependentsNotExecuted ==
    (simulation # <<>> /\ simulation[1].failure_task # NoFailureTask) =>
        LET lists == simulation[1].lists
            failure_task == simulation[1].failure_task
        IN \A t \in DOMAIN task_queue :
               LET dependencies == Range(task_queue[t].dependencies) IN
               (\/ failure_task \in dependencies /\ task_queue[t].condition = SUCCESS
                \/ dependencies \cap Range(lists.skipped) # {}) =>
                   t \notin Range(lists.executed)

-----------------------------------------------------------------------------
(* SpecSuccessLoop: one worker runs the loop of                             *)
(* test_multi_agent_story_workflow and test_10_task_graph_under_100ms       *)
(*     for _ in range(n):                                                   *)
(*         ready = get_ready_tasks(task_queue)                              *)
(*         if ready:                                                        *)
(*             task_id = ready[0]                                           *)
(*             update_task_state(task_queue, task_id, "completed",          *)
(*                               {"success": True})                         *)
(* on every acyclic queue of three pending tasks whose dependency lists     *)
(* hold at most MaxDeps ids of the queue, in any order, repeats included.   *)

SuccessKeys == {"A", "B", "C"}

\* update_task_state(task_queue, task_id, "completed", {"success": True})
RecordSuccess(w) ==
    /\ pc[w] = "claim"
    /\ task_queue' = update_task_state(task_queue, task_id[w], COMPLETED,
                                       Result(TRUE))
    /\ claimed_by' = [claimed_by EXCEPT ![task_id[w]] = @ \cup {w}]
    /\ pc' = [pc EXCEPT ![w] = "read"]
    /\ UNCHANGED <<ready, task_id, iter, updates, error, newly_ready, call,
                   topo_vars, validation, branch_vars,
                   extra_vars>>

InitSuccessLoop ==
    /\ \E g \in [SuccessKeys -> Lists(SuccessKeys, MaxDeps)] :
           /\ ~HasCycle(g)
           /\ task_queue =
                  [t \in SuccessKeys |-> Task(PENDING, g[t], None, NoCondition)]
    /\ LoopStart({1}, task_queue)

NextSuccessLoop ==
    \/ ReadReady(1)
    \/ RecordSuccess(1)

\* The loop body always runs to its end: the for loop is not interrupted.
SpecSuccessLoop ==
    InitSuccessLoop /\ [][NextSuccessLoop]_vars /\ WF_vars(NextSuccessLoop)

AllCompleted(q) == \A t \in DOMAIN q : q[t].state = COMPLETED

\* C24: in every run of the success loop on an acyclic queue whose
\* dependency ids all exist, the ready set is non-empty while some task is
\* not completed, the queue is fully completed once the loop has run as many
\* iterations as the queue has tasks, and every run reaches that state.
C24_SuccessLoopCompletes ==
    /\ [](~AllCompleted(task_queue) => get_ready_tasks(task_queue) # <<>>)
    /\ []((iter[1] = Iterations(task_queue) /\ pc[1] = "read") =>
              AllCompleted(task_queue))
    /\ <>AllCompleted(task_queue)

\* C24 witness: a queue in which C waits for B and B waits for A (A twice in
\* its list) has been completed by three iterations of the loop.
C24_Witness ==
    /\ task_queue["B"].dependencies = <<"A", "A">>
    /\ task_queue["C"].dependencies = <<"B", "A">>
    /\ iter[1] = 3
    /\ pc[1] = "read"
    /\ AllCompleted(task_queue)
    /\ \A t \in DOMAIN task_queue : claimed_by[t] = {1}

-----------------------------------------------------------------------------
(* SpecCondSuccessLoop: one worker runs the loop of                         *)
(* test_build_pipeline_workflow                                             *)
(*     for _ in range(n):                                                   *)
(*         ready = get_ready_tasks_with_conditions(task_queue)              *)
(*         if ready:                                                        *)
(*             task_id = ready[0]                                           *)
(*             update_task_state(task_queue, task_id, "completed",          *)
(*                               {"success": True})                         *)
(* on every queue of three pending tasks, each with any set of              *)
(* dependencies among the three (itself included) and any condition.        *)

InitCondSuccessLoop ==
    /\ \E g \in [SuccessKeys -> SUBSET SuccessKeys],
          cond \in [SuccessKeys -> ConditionType \cup {NoCondition}] :
           task_queue =
               [t \in SuccessKeys |-> Task(PENDING, ListOf(g[t]), None, cond[t])]
    /\ LoopStart({1}, task_queue)

NextCondSuccessLoop ==
    \/ ReadReadyWithConditions(1)
    \/ RecordSuccess(1)

SpecCondSuccessLoop == InitCondSuccessLoop /\ [][NextCondSuccessLoop]_vars

\* The task carries condition failure and has at least one dependency.
IsFailureHandler(q, t) ==
    /\ q[t].condition = FAILURE
    /\ q[t].dependencies # <<>>

\* C25: in a run of the conditional loop in which every executed task
\* succeeds, a task with condition failure and at least one dependency is in
\* no ready list (computed on the queue or read by the worker), is never
\* taken and stays pending.
C25_FailureHandlerNeverRuns ==
    \A t \in DOMAIN task_queue :
        IsFailureHandler(task_queue, t) =>
            /\ t \notin ConditionalReady(task_queue)
            /\ t \notin Range(ready[1])
            /\ task_id[1] # t
            /\ claimed_by[t] = {}
            /\ task_queue[t].state = PENDING

\* C25 witness: A and B (which waits for A) have been completed with
\* success, C carries condition failure on A and B, and the loop has ended
\* with C still pending.
C25_Witness ==
    /\ task_queue["A"].dependencies = <<>>
    /\ task_queue["B"].dependencies = <<"A">>
    /\ task_queue["C"].dependencies = <<"A", "B">>
    /\ task_queue["C"].condition = FAILURE
    /\ task_queue["A"].state = COMPLETED
    /\ task_queue["B"].state = COMPLETED
    /\ task_queue["A"].result = Result(TRUE)
    /\ iter[1] = 3
    /\ pc[1] = "read"
    /\ task_queue["C"].state = PENDING

-----------------------------------------------------------------------------
(* SpecWorkflow: WorkflowOrchestrator.execute_workflow on every acyclic     *)
(* set of three pending workflow tasks whose dependency lists hold at most  *)
(* MaxDeps ids of the workflow, with no agent, one agent, or two agents of  *)
(* which one carries the empty name.  The affinity an executor scores for   *)
(* a task is any of three levels between 0.0 and 1.0.                       *)

WorkflowKeys == {"A", "B", "C"}

\* The names of self.agents in insertion order.
WorkflowAgents == {<<>>, <<"Bob">>, <<"Bob", "">>}

\* The values of score_task_affinity: 0.0, 0.5, 1.0.
AffinityLevels == 0..2

\* AgentExecutor(agent_state, personality) after create_agent_state.
NewExecutor ==
    [total_tasks_claimed |-> 0, execution_count |-> 0, current_task |-> NoAgent,
     task_history |-> <<>>, completed_tasks |-> 0]

\* Task(id=task.id, ..., is_ready=True)
NewTask == [claimed_by |-> NoAgent, completed |-> FALSE]

InitWorkflow ==
    /\ \E g \in [WorkflowKeys -> Lists(WorkflowKeys, MaxDeps)],
          agents \in WorkflowAgents :
           /\ ~HasCycle(g)
           /\ workflow =
                  [tasks |-> [t \in WorkflowKeys |->
                                 [dependencies |-> g[t], status |-> PENDING,
                                  assigned_agent |-> NoAgent]],
                   agents |-> agents,
                   pc |-> "start",
                   sorted_tasks |-> <<>>,
                   i |-> 0,
                   task_queue |-> <<>>,
                   execution_order |-> <<>>,
                   tasks_failed |-> 0]
    /\ kahn = <<>>
    /\ agency = <<>>
    /\ LoopIdle
    /\ TopoIdle
    /\ QueueIdle
    /\ ValidateIdle
    /\ BranchIdle

\* execute_workflow up to the loop: task_graph, sorted_tasks and task_queue.
BeginExecuteWorkflow ==
    /\ workflow.pc = "start"
    /\ workflow' =
           [workflow EXCEPT
               !.pc = "loop",
               !.sorted_tasks =
                   topological_sort([t \in DOMAIN workflow.tasks |->
                                        workflow.tasks[t].dependencies]),
               !.i = 1,
               !.task_queue =
                   [t \in DOMAIN workflow.tasks |->
                       [dependencies |-> workflow.tasks[t].dependencies,
                        status |-> workflow.tasks[t].status,
                        state |-> "absent",
                        result |-> None]]]
    /\ UNCHANGED <<queue_vars, loop_vars, topo_vars, validation, branch_vars,
                   kahn, agency>>

\* One iteration of "for task_id in sorted_tasks".
ExecuteNextTask ==
    /\ workflow.pc = "loop"
    /\ workflow.i <= Len(workflow.sorted_tasks)
    /\ LET tid == workflow.sorted_tasks[workflow.i] IN
       IF workflow.tasks[tid].status = COMPLETED
       THEN workflow' = [workflow EXCEPT !.i = @ + 1]
       ELSE \E affinity \in [Range(workflow.agents) -> AffinityLevels] :
                LET best_agent ==
                        find_best_agent(workflow.agents, affinity, NoAgent, 0)
                IN
                IF ~Truthy(best_agent)
                THEN workflow' = [workflow EXCEPT !.i = @ + 1]
                ELSE IF execute_task([tasks |-> [t \in {tid} |-> NewTask],
                                      executors |->
                                          [e \in {best_agent} |-> NewExecutor]],
                                     best_agent, tid).returned
                     THEN workflow' =
                              [workflow EXCEPT
                                  !.i = @ + 1,
                                  !.tasks[tid].status = COMPLETED,
                                  !.tasks[tid].assigned_agent = best_agent,
                                  !.execution_order = Append(@, tid),
                                  !.task_queue =
                                      update_task_state(@, tid, COMPLETED, None)]
                     ELSE workflow' =
                              [workflow EXCEPT
                                  !.i = @ + 1,
                                  !.tasks[tid].status = FAILED,
                                  !.tasks_failed = @ + 1]
    /\ UNCHANGED <<queue_vars, loop_vars, topo_vars, validation, branch_vars,
                   kahn, agency>>

\* return execution_results
EndExecuteWorkflow ==
    /\ workflow.pc = "loop"
    /\ workflow.i > Len(workflow.sorted_tasks)
    /\ workflow' = [workflow EXCEPT !.pc = "done"]
    /\ UNCHANGED <<queue_vars, loop_vars, topo_vars, validation, branch_vars,
                   kahn, agency>>

NextWorkflow ==
    \/ BeginExecuteWorkflow
    \/ ExecuteNextTask
    \/ EndExecuteWorkflow

SpecWorkflow == InitWorkflow /\ [][NextWorkflow]_vars

\* C26: in execute_workflow a task is marked completed only when every one
\* of its dependencies is marked completed (a status never leaves
\* completed), and execution_order lists each dependency of a task before
\* the task.
C26_WorkflowDependenciesFirst ==
    /\ \A t \in DOMAIN workflow.tasks :
           workflow.tasks[t].status = COMPLETED =>
               \A d \in Range(workflow.tasks[t].dependencies) :
                   workflow.tasks[d].status = COMPLETED
    /\ \A j \in 1..Len(workflow.execution_order) :
           \A d \in Range(workflow.tasks[workflow.execution_order[j]].dependencies) :
               \E i \in 1..(j - 1) : workflow.execution_order[i] = d

-----------------------------------------------------------------------------
(* SpecAgency: two executors call claim_task and execute_task on three      *)
(* tasks, one call after the other (test_claim_task_already_claimed), up    *)
(* to MaxCalls calls.                                                       *)

AgencyTasks == {"task_1", "task_2", "task_3"}

\* The executors, by the name of their personality.
Executors == {"Athena", "Cato"}

InitAgency ==
    /\ agency = [tasks |-> [t \in AgencyTasks |-> NewTask],
                 executors |-> [e \in Executors |-> NewExecutor],
                 returned |-> FALSE,
                 call |-> <<>>,
                 calls |-> 0]
    /\ kahn = <<>>
    /\ workflow = <<>>
    /\ LoopIdle
    /\ TopoIdle
    /\ QueueIdle
    /\ ValidateIdle
    /\ BranchIdle

\* The state after a call that left the tasks and executors of after.
AfterCall(e, op, tid, after) ==
    [tasks |-> after.tasks, executors |-> after.executors,
     returned |-> after.returned, call |-> <<e, op, tid>>,
     calls |-> agency.calls + 1]

\* executor.claim_task(task)
ClaimTask ==
    /\ agency.calls < MaxCalls
    /\ \E e \in Executors, tid \in AgencyTasks :
           agency' = AfterCall(e, "claim_task", tid, claim_task(agency, e, tid))
    /\ UNCHANGED <<queue_vars, loop_vars, topo_vars, validation, branch_vars,
                   kahn, workflow>>

\* executor.execute_task(task)
ExecuteTask ==
    /\ agency.calls < MaxCalls
    /\ \E e \in Executors, tid \in AgencyTasks :
           agency' = AfterCall(e, "execute_task", tid, execute_task(agency, e, tid))
    /\ UNCHANGED <<queue_vars, loop_vars, topo_vars, validation, branch_vars,
                   kahn, workflow>>

NextAgency ==
    \/ ClaimTask
    \/ ExecuteTask

SpecAgency == InitAgency /\ [][NextAgency]_vars

\* The executors whose history holds the task.
ClaimedIt(ag, tid) ==
    {e \in DOMAIN ag.executors :
        \E i \in 1..Len(ag.executors[e].task_history) :
            ag.executors[e].task_history[i].task_id = tid}

\* C27: over any sequence of claim_task and execute_task calls, claimed_by
\* never changes once it is set; a call on a task that is already claimed
\* returns False and leaves every task and every executor (metrics and agent
\* state) as they were; and at most one executor ever records the task.
C27_ClaimedAtMostOnce ==
    /\ [][\A t \in AgencyTasks :
              agency.tasks[t].claimed_by # NoAgent =>
                  agency'.tasks[t].claimed_by = agency.tasks[t].claimed_by]_vars
    /\ [][\A t \in AgencyTasks :
              (agency.tasks[t].claimed_by # NoAgent /\ agency'.call[3] = t) =>
                  /\ agency'.returned = FALSE
                  /\ agency'.tasks = agency.tasks
                  /\ agency'.executors = agency.executors]_vars
    /\ [](\A t \in AgencyTasks :
              /\ Cardinality(ClaimedIt(agency, t)) <= 1
              /\ agency.tasks[t].claimed_by # NoAgent =>
                     ClaimedIt(agency, t) = {agency.tasks[t].claimed_by})

\* C27 witness: Athena holds task_1 and Cato's claim on it has returned
\* False; Cato has claimed nothing.
C27_Witness ==
    /\ agency.tasks["task_1"].claimed_by = "Athena"
    /\ agency.call = <<"Cato", "claim_task", "task_1">>
    /\ agency.returned = FALSE
    /\ agency.executors["Cato"] = NewExecutor
    /\ agency.executors["Athena"].total_tasks_claimed = 1

-----------------------------------------------------------------------------
(* SpecKahn: the while loops of topological_sort and get_parallel_batches, *)
(* one iteration per step, on every map of SpecTopo.  A call that has       *)
(* started keeps running.                                                   *)

InitKahn ==
    /\ \E keys \in SUBSET TopoIds :
           \E g \in [keys -> Lists(TopoIds, MaxDeps)] :
           kahn = [task_graph |-> g, function |-> "none", pc |-> "start",
                   in_degree |-> <<>>, queue |-> <<>>, result |-> <<>>]
    /\ workflow = <<>>
    /\ agency = <<>>
    /\ LoopIdle
    /\ TopoIdle
    /\ QueueIdle
    /\ ValidateIdle
    /\ BranchIdle

\* The function up to its while loop: "if not task_graph: return []", the
\* in-degrees, and the nodes of in-degree 0 (the deque of topological_sort,
\* current_batch of get_parallel_batches).
begin_kahn(function, loop) ==
    IF DOMAIN kahn.task_graph = {}
    THEN [kahn EXCEPT !.function = function, !.pc = "done"]
    ELSE [kahn EXCEPT
             !.function = function,
             !.pc = loop,
             !.in_degree = in_degree_of(kahn.task_graph),
             !.queue = zero_in_degree(kahn.task_graph,
                                      in_degree_of(kahn.task_graph))]

\* topological_sort(task_graph) is called.
SortBegin ==
    /\ kahn.pc = "start"
    /\ kahn' = begin_kahn("topological_sort", "while queue")
    /\ UNCHANGED <<queue_vars, loop_vars, topo_vars, validation, branch_vars,
                   workflow, agency>>

\* One iteration of "while queue" of topological_sort.
SortIteration ==
    /\ kahn.pc = "while queue"
    /\ kahn.queue # <<>>
    /\ LET node == Head(kahn.queue)
           after == decrement_dependents(kahn.task_graph, kahn.in_degree, node)
       IN kahn' = [kahn EXCEPT
                      !.queue = Tail(@) \o after.appended,
                      !.result = Append(@, node),
                      !.in_degree = after.in_degree]
    /\ UNCHANGED <<queue_vars, loop_vars, topo_vars, validation, branch_vars,
                   workflow, agency>>

\* get_parallel_batches(task_graph) is called.
BatchesBegin ==
    /\ kahn.pc = "start"
    /\ kahn' = begin_kahn("get_parallel_batches", "while current_batch")
    /\ UNCHANGED <<queue_vars, loop_vars, topo_vars, validation, branch_vars,
                   workflow, agency>>

\* One iteration of "while current_batch" of get_parallel_batches.
BatchIteration ==
    /\ kahn.pc = "while current_batch"
    /\ kahn.queue # <<>>
    /\ LET after == process_batch(kahn.task_graph, kahn.in_degree, kahn.queue,
                                  <<>>)
       IN kahn' = [kahn EXCEPT
                      !.queue = after.next_batch,
                      !.result = Append(@, kahn.queue),
                      !.in_degree = after.in_degree]
    /\ UNCHANGED <<queue_vars, loop_vars, topo_vars, validation, branch_vars,
                   workflow, agency>>

\* The loop ends on the empty deque or batch: return result / return batches.
KahnReturn ==
    /\ kahn.pc \in {"while queue", "while current_batch"}
    /\ kahn.queue = <<>>
    /\ kahn' = [kahn EXCEPT !.pc = "done"]
    /\ UNCHANGED <<queue_vars, loop_vars, topo_vars, validation, branch_vars,
                   workflow, agency>>

NextKahn ==
    \/ SortBegin
    \/ SortIteration
    \/ BatchesBegin
    \/ BatchIteration
    \/ KahnReturn

SpecKahn == InitKahn /\ [][NextKahn]_vars /\ WF_vars(NextKahn)

\* The nodes the loop has emitted so far.
Emitted ==
    IF kahn.function = "get_parallel_batches" THEN Concat(kahn.result)
    ELSE kahn.result

\* C29: on every dependency map, cycles and self-dependencies included, each
\* call of topological_sort and get_parallel_batches returns: the nodes
\* emitted and the nodes waiting in the deque or batch are never more than
\* the nodes of the map, and every run reaches the return.
C29_KahnTerminates ==
    /\ [](Len(Emitted) + Len(kahn.queue)
              <= Cardinality(Nodes(kahn.task_graph)))
    /\ <>(kahn.pc = "done")

\* C29 witness: topological_sort has returned on a map in which B and C
\* wait for each other and A depends on itself, having emitted nothing.
C29_Witness ==
    /\ kahn.pc = "done"
    /\ kahn.function = "topological_sort"
    /\ DOMAIN kahn.task_graph = {"A", "B", "C"}
    /\ kahn.task_graph["A"] = <<"A">>
    /\ kahn.task_graph["B"] = <<"C">>
    /\ kahn.task_graph["C"] = <<"B">>
    /\ kahn.result = <<>>

====
